---- MODULE Spec2Model ----
(***************************************************************************)
(* Model of sites/admin/src/interface/ast.ts: the node registry and        *)
(* loader (ASTNode.loadNode), the node constructors, and the stack-based   *)
(* assembly of a document's flat children performed by the DocumentNode    *)
(* constructor.                                                            *)
(*                                                                         *)
(* Two specifications:                                                     *)
(*   Spec      the DocumentNode constructor: one step per iteration of     *)
(*             obj.children.forEach                                        *)
(*   SpecLoad  one call of ASTNode.loadNode on a flat node                 *)
(***************************************************************************)
EXTENDS Integers, Sequences, FiniteSets, TLC

\* Bounds of the model
MaxLen == 4
MaxLevel == 3
MaxChildren == 2

VARIABLES
    flat,       \* obj.children of the document: the flat sequence
    pos,        \* index of the element forEach visits next
    nodes,      \* loaded node of every visited element, by index
    children,   \* children list of every frame: 0 is the document, i the node of flat[i]
    preamble,   \* DocumentNode.preamble
    headers,    \* the Stack<HeaderType>, bottom first
    pc,         \* "forEach" | "done" | "error" (the constructor threw)
    loadIn,     \* argument of the loadNode call of SpecLoad
    loadOut,    \* its result
    lpc         \* "call" | "returned" | "threw"

vars == <<flat, pos, nodes, children, preamble, headers, pc, loadIn, loadOut, lpc>>

Elems(s) == {s[i] : i \in DOMAIN s}

SeqsUpTo(S, n) == UNION {[1..k -> S] : k \in 0..n}

-----------------------------------------------------------------------------
(* Flat parse nodes (interface ASTObject plus the per-variant fields the   *)
(* constructors read).  An absent numeric field is the empty set, a        *)
(* present one a singleton.                                                *)

FlatObj(element, level, option, value, text, kids) ==
    [element |-> element, level |-> level, option |-> option, value |-> value,
     directive_type |-> IF element = "directive_block" THEN "note" ELSE "",
     directive |-> IF element = "directive_block" THEN "data" ELSE "",
     text |-> text, children |-> kids]

-----------------------------------------------------------------------------
(* The registry ASTNode.NodeTypes, filled by the @ASTNode.registerNode     *)
(* decorators when the module is loaded.                                   *)

Registered ==
    {"document", "heading", "directive_block", "directive_option",
     "paragraph", "raw_text", "blank_line", "internal_link"}

\* ASTNode.NodeTypes[tag].  NodeTypes is the object literal {}, so a lookup
\* that misses the registered keys continues along the prototype chain:
\* "constructor" finds Object, "toString" a built-in method (a function that
\* is not a constructor), "__proto__" the prototype object itself.
NodeTypes(tag) ==
    CASE tag = "document"         -> "DocumentNode"
      [] tag = "heading"          -> "HeadingNode"
      [] tag = "directive_block"  -> "DirectiveNode"
      [] tag = "directive_option" -> "DirectiveOptionNode"
      [] tag = "paragraph"        -> "ParagraphNode"
      [] tag = "raw_text"         -> "TextNode"
      [] tag = "blank_line"       -> "BlankLineNode"
      [] tag = "internal_link"    -> "InternalLinkNode"
      [] tag = "constructor"      -> "Object"
      [] tag = "toString"         -> "builtin_method"
      [] tag = "__proto__"        -> "prototype_object"
      [] OTHER                    -> "undefined"

\* The fields of a freshly constructed ASTNode: children = [], typename unset.
ASTNode(obj) ==
    [threw |-> FALSE, variant |-> "ASTNode", typename |-> "undefined",
     level |-> {}, children |-> <<>>, preamble |-> <<>>, label |-> <<>>,
     options |-> <<>>, hasOptions |-> FALSE, key |-> "", value |-> "",
     directiveType |-> "", directive |-> "", text |-> ""]

\* A constructor call that ends in a TypeError.
Threw == [ASTNode(<<>>) EXCEPT !.threw = TRUE, !.variant = "TypeError"]

\* Object.fromEntries: a later entry with the same key overwrites an earlier one.
FromEntries(entries) ==
    [k \in {entries[i][1] : i \in DOMAIN entries} |->
        LET last == CHOOSE i \in DOMAIN entries :
                        /\ entries[i][1] = k
                        /\ \A j \in DOMAIN entries : entries[j][1] = k => j <= i
        IN  entries[last][2]]

\* Array.prototype.filter
RECURSIVE FilterOptions(_)
FilterOptions(ns) ==
    IF ns = <<>> THEN <<>>
    ELSE IF Head(ns).variant = "DirectiveOptionNode"
         THEN <<Head(ns)>> \o FilterOptions(Tail(ns))
         ELSE FilterOptions(Tail(ns))

\* DirectiveNode constructor.  DirectiveNode extends ASTNode, so this.children
\* is the empty list of the base class when the options are computed: the
\* constructor never loads obj.children.
DirectiveNode(obj) ==
    LET base    == ASTNode(obj)
        opts    == FilterOptions(base.children)
        entries == [i \in DOMAIN opts |-> <<opts[i].key, opts[i].value>>]
    IN  [base EXCEPT !.variant = "DirectiveNode",
                     !.directiveType = obj.directive_type,
                     !.directive = obj.directive,
                     !.options = FromEntries(entries),
                     !.hasOptions = TRUE]

\* DirectiveOptionNode constructor
DirectiveOptionNode(obj) ==
    [ASTNode(obj) EXCEPT !.variant = "DirectiveOptionNode",
                         !.key = obj.option, !.value = obj.value]

\* TextNode constructor
TextNode(obj) ==
    [ASTNode(obj) EXCEPT !.variant = "TextNode", !.text = obj.text]

RECURSIVE loadNode(_)

\* obj.children.map(ASTNode.loadNode)
MapLoadNode(objs) == [i \in DOMAIN objs |-> loadNode(objs[i])]

AnyThrew(ns) == \E i \in DOMAIN ns : ns[i].threw

\* HeadingNode constructor
HeadingNode(obj) ==
    LET label == MapLoadNode(obj.children)
    IN  IF AnyThrew(label) THEN Threw
        ELSE [ASTNode(obj) EXCEPT !.variant = "HeadingNode",
                                  !.level = obj.level, !.label = label]

\* RecursiveNode constructor (ParagraphNode)
RecursiveNode(obj, variant) ==
    LET kids == MapLoadNode(obj.children)
    IN  IF AnyThrew(kids) THEN Threw
        ELSE [ASTNode(obj) EXCEPT !.variant = variant, !.children = kids]

\* new constructor(obj), by the value the registry lookup produced.  A
\* document is constructed by the assembly loop (ProcessChild below); as an
\* operand of loadNode it is only applied to a document without children.
New(ctor, obj) ==
    CASE ctor = "ASTNode"             -> ASTNode(obj)
      [] ctor = "DocumentNode"        -> [ASTNode(obj) EXCEPT !.variant = "DocumentNode",
                                                              !.level = {0}]
      [] ctor = "HeadingNode"         -> HeadingNode(obj)
      [] ctor = "DirectiveNode"       -> DirectiveNode(obj)
      [] ctor = "DirectiveOptionNode" -> DirectiveOptionNode(obj)
      [] ctor = "ParagraphNode"       -> RecursiveNode(obj, "ParagraphNode")
      [] ctor = "TextNode"            -> TextNode(obj)
      [] ctor = "BlankLineNode"       -> [ASTNode(obj) EXCEPT !.variant = "BlankLineNode"]
      [] ctor = "InternalLinkNode"    -> [ASTNode(obj) EXCEPT !.variant = "InternalLinkNode"]
      \* new Object(obj) returns obj itself, which is no ASTNode
      [] ctor = "Object"              -> [ASTNode(obj) EXCEPT !.variant = "flat_object",
                                                              !.level = obj.level]
      \* a built-in method or a plain object is not a constructor
      [] OTHER                        -> Threw

\* The typename loadNode records: the tag when the lookup found anything.
Typename(obj) ==
    IF NodeTypes(obj.element) # "undefined" THEN obj.element ELSE "default_node"

\* ASTNode.loadNode
loadNode(obj) ==
    LET constructor == IF NodeTypes(obj.element) # "undefined"
                       THEN NodeTypes(obj.element) ELSE "ASTNode"
        node == New(constructor, obj)
    IN  IF node.threw THEN node
        ELSE [node EXCEPT !.typename = Typename(obj)]

\* isHeader
isHeader(node) == node.level # {}

-----------------------------------------------------------------------------
(* class Stack<T>                                                          *)

Push(stack, item) == Append(stack, item)

Pop(stack) == SubSeq(stack, 1, Len(stack) - 1)

Top(stack) == stack[Len(stack)]

isEmpty(stack) == Len(stack) = 0

-----------------------------------------------------------------------------
(* The assembly loop of the DocumentNode constructor.  Frame 0 is the      *)
(* document itself, frame i the node loaded from flat[i].                  *)

LevelOf(node) == CHOOSE l \in node.level : TRUE

\* frame.level: the getter of DocumentNode returns 0
FrameLevel(frame, ns) == IF frame = 0 THEN 0 ELSE LevelOf(ns[frame])

\* DocumentNode.sendChild without the isHeader test
DocumentSendChildNoPreamble(id, node, ch, pre) ==
    [children |-> [ch EXCEPT ![0] = Append(@, id)], preamble |-> pre]

\* DocumentNode.sendChild
DocumentSendChild(id, node, ch, pre) ==
    IF isHeader(node)
    THEN [children |-> [ch EXCEPT ![0] = Append(@, id)], preamble |-> pre]
    ELSE [children |-> ch, preamble |-> Append(pre, id)]

\* HeadingNode.sendChild with unshift in place of push
HeadingSendChildUnshift(frame, id, ch, pre) ==
    [children |-> [ch EXCEPT ![frame] = <<id>> \o @], preamble |-> pre]

\* HeadingNode.sendChild
HeadingSendChild(frame, id, ch, pre) ==
    [children |-> [ch EXCEPT ![frame] = Append(@, id)], preamble |-> pre]

\* headers.top.sendChild(node)
sendChild(frame, id, node, ch, pre) ==
    IF frame = 0 THEN DocumentSendChild(id, node, ch, pre)
    ELSE HeadingSendChild(frame, id, ch, pre)

\* The pop loop with <= in place of <
RECURSIVE PopWhileInclusive(_, _, _)
PopWhileInclusive(stack, lv, ns) ==
    IF isEmpty(stack) THEN stack
    ELSE IF lv <= FrameLevel(Top(stack), ns) THEN PopWhileInclusive(Pop(stack), lv, ns)
    ELSE stack

\* while (node.level < headers.top.level) headers.pop()
\* The empty stack stands for the TypeError of reading .level of the
\* undefined top.
RECURSIVE PopWhile(_, _, _)
PopWhile(stack, lv, ns) ==
    IF isEmpty(stack) THEN stack
    ELSE IF lv < FrameLevel(Top(stack), ns) THEN PopWhile(Pop(stack), lv, ns)
    ELSE stack

\* The if/else without the push that follows the pop loop
PushHeaderNoRepush(stack, id, lv, ns) ==
    IF lv > FrameLevel(Top(stack), ns)
    THEN Push(stack, id)
    ELSE PopWhile(stack, lv, ns)

\* The if/else that follows isHeader(node): the new stack, or the empty
\* stack when the loop ran off the bottom and threw.
PushHeader(stack, id, lv, ns) ==
    IF lv > FrameLevel(Top(stack), ns)
    THEN Push(stack, id)
    ELSE LET popped == PopWhile(stack, lv, ns)
         IN  IF isEmpty(popped) THEN popped ELSE Push(popped, id)

-----------------------------------------------------------------------------
(* Flat sequences handed to the document constructor: headings, paragraphs *)
(* and horizontal rules ("hline" has no registered node type).             *)

Text == FlatObj("raw_text", {}, "", "", "x", <<>>)

Heading(l) == FlatObj("heading", {l}, "", "", "", <<Text>>)

Paragraph == FlatObj("paragraph", {}, "", "", "", <<Text>>)

HLine == FlatObj("hline", {}, "", "", "", <<>>)

Levels == (-1)..MaxLevel

AssemblyObjs == {Heading(l) : l \in Levels} \cup {Paragraph, HLine}

NoCall == Text

Init ==
    /\ flat \in SeqsUpTo(AssemblyObjs, MaxLen)
    /\ pos = 1
    /\ nodes = <<>>
    /\ children = [f \in 0..Len(flat) |-> <<>>]
    /\ preamble = <<>>
    /\ headers = <<0>>
    /\ pc = "forEach"
    /\ loadIn = NoCall
    /\ loadOut = ASTNode(NoCall)
    /\ lpc = "idle"

\* One iteration of obj.children.forEach
ProcessChild ==
    /\ pc = "forEach"
    /\ pos <= Len(flat)
    /\ LET node == loadNode(flat[pos])
       IN  IF node.threw
           THEN /\ pc' = "error"
                /\ UNCHANGED <<children, preamble, headers>>
           ELSE LET sent  == sendChild(Top(headers), pos, node, children, preamble)
                    stack == IF isHeader(node)
                             THEN PushHeader(headers, pos, LevelOf(node), nodes)
                             ELSE headers
                IN  /\ children' = sent.children
                    /\ preamble' = sent.preamble
                    /\ headers' = stack
                    /\ pc' = IF isEmpty(stack) THEN "error" ELSE pc
    /\ nodes' = Append(nodes, loadNode(flat[pos]))
    /\ pos' = pos + 1
    /\ UNCHANGED <<flat, loadIn, loadOut, lpc>>

\* forEach has visited every element: the constructor returns
Finish ==
    /\ pc = "forEach"
    /\ pos > Len(flat)
    /\ pc' = "done"
    /\ UNCHANGED <<flat, pos, nodes, children, preamble, headers, loadIn, loadOut, lpc>>

Next == ProcessChild \/ Finish

Spec == Init /\ [][Next]_vars

-----------------------------------------------------------------------------
(* One call of ASTNode.loadNode.                                           *)

Keys == {"key", "name"}

Values == {"value", "other"}

Option(k, v) == FlatObj("directive_option", {}, k, v, "", <<>>)

Leaves ==
    {Option(k, v) : k \in Keys, v \in Values}
        \cup {Text, HLine, FlatObj("toString", {}, "", "", "", <<>>)}

LoadTags ==
    (Registered \ {"document"}) \cup {"hline", "constructor", "toString", "__proto__"}

LoadObjs ==
    {FlatObj(t, IF t = "heading" THEN {1} ELSE {},
             IF t = "directive_option" THEN "key" ELSE "",
             IF t = "directive_option" THEN "value" ELSE "",
             IF t = "raw_text" THEN "x" ELSE "", kids) :
        t \in LoadTags, kids \in SeqsUpTo(Leaves, MaxChildren)}
        \cup {FlatObj("document", {}, "", "", "", <<>>)}

InitLoad ==
    /\ loadIn \in LoadObjs
    /\ loadOut = ASTNode(NoCall)
    /\ lpc = "call"
    /\ flat = <<>>
    /\ pos = 1
    /\ nodes = <<>>
    /\ children = [f \in {0} |-> <<>>]
    /\ preamble = <<>>
    /\ headers = <<0>>
    /\ pc = "idle"

\* ASTNode.loadNode(loadIn)
LoadNodeCall ==
    /\ lpc = "call"
    /\ loadOut' = loadNode(loadIn)
    /\ lpc' = IF loadNode(loadIn).threw THEN "threw" ELSE "returned"
    /\ UNCHANGED <<loadIn, flat, pos, nodes, children, preamble, headers, pc>>

NextLoad == LoadNodeCall

SpecLoad == InitLoad /\ [][NextLoad]_vars

-----------------------------------------------------------------------------
(* Properties of the assembled tree.                                       *)

Frames == 0..Len(flat)

Visited == DOMAIN nodes

HeadingsVisited == {i \in Visited : isHeader(nodes[i])}

Max(S) == CHOOSE x \in S : \A y \in S : y <= x

Min(S) == CHOOSE x \in S : \A y \in S : x <= y

\* index of the first heading, or one past the visited elements
FirstHeading == IF HeadingsVisited = {} THEN Len(nodes) + 1 ELSE Min(HeadingsVisited)

FlatLevels == {LevelOf(flat[i]) : i \in {j \in DOMAIN flat : flat[j].level # {}}}

AllLevelsPositive == \A l \in FlatLevels : l >= 1

AllLevelsNonNegative == \A l \in FlatLevels : l >= 0

\* number of places in which the node of flat[i] is listed
Occurrences(i) ==
    Cardinality({k \in DOMAIN preamble : preamble[k] = i})
        + Cardinality({fk \in {<<f, k>> : f \in Frames, k \in 1..Len(flat)} :
                          /\ fk[2] \in DOMAIN children[fk[1]]
                          /\ children[fk[1]][fk[2]] = i})

InSourceOrder(list) == \A a, b \in DOMAIN list : a < b => list[a] < list[b]

\* C1: in the assembled tree of a flat sequence whose headings have levels
\* >= 1, every heading listed in a frame's children has a level strictly
\* greater than the level of that frame (the document has level 0).
LevelNesting ==
    (pc = "done" /\ AllLevelsPositive) =>
        \A f \in Frames : \A c \in Elems(children[f]) :
            isHeader(nodes[c]) => LevelOf(nodes[c]) > FrameLevel(f, nodes)

\* C2: when a heading arrives whose level equals the level of the heading on
\* top of the stack, it is appended to the children of that heading's parent
\* and not to the children of that heading.
SameLevelStep ==
    (/\ pc = "forEach"
     /\ pos <= Len(flat)
     /\ Top(headers) # 0
     /\ isHeader(loadNode(flat[pos]))
     /\ LevelOf(loadNode(flat[pos])) = FrameLevel(Top(headers), nodes))
        => /\ pos \notin Elems(children'[Top(headers)])
           /\ \E f \in Frames : /\ Top(headers) \in Elems(children[f])
                                /\ pos \in Elems(children'[f])

SameLevelSibling == [][SameLevelStep]_vars

\* C3: every non-heading node before the first heading is in the preamble
\* and in no children list, and the preamble holds no heading and no node
\* that comes after the first heading.
PreambleSeparation ==
    pc # "error" =>
        /\ \A i \in Visited : (i < FirstHeading /\ ~isHeader(nodes[i])) =>
              /\ i \in Elems(preamble)
              /\ \A f \in Frames : i \notin Elems(children[f])
        /\ \A i \in Elems(preamble) : ~isHeader(nodes[i]) /\ i < FirstHeading

PreambleSeparationWitness ==
    /\ pc = "done"
    /\ Len(preamble) >= 2
    /\ HeadingsVisited # {}
    /\ \E i \in Visited : i > FirstHeading /\ ~isHeader(nodes[i])

\* C4: every non-heading node after the first heading is a child of the most
\* recent heading before it, and is listed nowhere else.
BodyUnderNearestHeading ==
    pc # "error" =>
        \A i \in Visited : (~isHeader(nodes[i]) /\ i > FirstHeading) =>
            LET h == Max({j \in HeadingsVisited : j < i})
            IN  /\ i \in Elems(children[h])
                /\ i \notin Elems(preamble)
                /\ \A f \in Frames \ {h} : i \notin Elems(children[f])

\* h1 Title, Body, h2 Sub, More
BodyUnderNearestHeadingWitness ==
    /\ pc = "done"
    /\ Len(flat) = 4
    /\ flat[1] = Heading(1) /\ flat[2] = Paragraph
    /\ flat[3] = Heading(2) /\ flat[4] = Paragraph
    /\ 2 \in Elems(children[1]) /\ 2 \notin Elems(children[3])
    /\ children[3] = <<4>>

SourceOrder ==
    pc # "error" =>
        /\ InSourceOrder(preamble)
        /\ \A f \in Frames : InSourceOrder(children[f])
        /\ \A i \in Visited : Occurrences(i) = 1

SourceOrderWitness ==
    /\ pc = "done"
    /\ Len(preamble) >= 1
    /\ Len(children[0]) >= 1
    /\ \E f \in Frames \ {0} : Len(children[f]) >= 2

\* C9: after every processed node the levels of the frames on the stack are
\* strictly increasing from the document at the bottom to the top.
StackStrictlyIncreasing ==
    (pc # "error" /\ AllLevelsPositive) =>
        /\ headers[1] = 0
        /\ \A k \in 1..(Len(headers) - 1) :
              FrameLevel(headers[k], nodes) < FrameLevel(headers[k + 1], nodes)

\* C10: a heading just processed is listed in the children of the frame that
\* was on top when it was pushed, which is the frame now directly below it.
AttachedAfterPop ==
    (/\ pc # "error"
     /\ AllLevelsPositive
     /\ nodes # <<>>
     /\ isHeader(nodes[Len(nodes)]))
        => Len(nodes) \in Elems(children[headers[Len(headers) - 1]])

-----------------------------------------------------------------------------
(* Properties of loadNode.                                                 *)

\* C5: loadNode returns for every flat node; a registered tag gives the
\* registered variant with the tag as typename, any other tag the default
\* variant with typename "default_node".
LoadNodeTotal ==
    lpc \in {"returned", "threw"} =>
        /\ lpc = "returned"
        /\ loadIn.element \in Registered =>
              /\ loadOut.variant = NodeTypes(loadIn.element)
              /\ loadOut.typename = loadIn.element
        /\ loadIn.element \notin Registered =>
              /\ loadOut.variant = "ASTNode"
              /\ loadOut.typename = "default_node"

OptionChildren(obj) ==
    {i \in DOMAIN obj.children : obj.children[i].element = "directive_option"}

\* C6: the options of a loaded directive map every key of a directive_option
\* child to the value of the last such child, and have no other key.
DirectiveOptions ==
    (lpc = "returned" /\ loadIn.element = "directive_block") =>
        /\ \A i \in OptionChildren(loadIn) :
              LET k    == loadIn.children[i].option
                  last == Max({j \in OptionChildren(loadIn) : loadIn.children[j].option = k})
              IN  /\ k \in DOMAIN loadOut.options
                  /\ loadOut.options[k] = loadIn.children[last].value
        /\ DOMAIN loadOut.options
              \subseteq {loadIn.children[i].option : i \in OptionChildren(loadIn)}

====
